---------------------------- MODULE Spec2Model ----------------------------
(***************************************************************************)
(* The Limbo game of src/src/App.tsx: the React component App, its state,  *)
(* its refs, its handlers (placeBet, resetGame, the two inputs, the        *)
(* unmount cleanup) and the requestAnimationFrame callback animateCounter. *)
(*                                                                         *)
(* Numbers are fixed point.                                                *)
(*   multipliers : 1 unit = 0.0001         (1.0 is ONE = 10000)            *)
(*   time        : 1 unit = 0.125 ms       (EPS = 1e-3 s = 8 units)        *)
(*   growth      : RATE = 0.8 per second = 1 multiplier unit per time unit *)
(*   betAmount   : whole currency units                                    *)
(*   balance and payout : 1 unit = 0.0001 currency units, so that          *)
(*                 bet * multiplier is a balance amount and the literal    *)
(*                 betAmount is betAmount * ONE on the balance scale       *)
(*   Math.random(): k / DrawScale for k in 0 .. DrawScale - 1              *)
(***************************************************************************)
EXTENDS Integers, Sequences, FiniteSets, TLC

\* ------------------------------------------------------------ constants
ONE == 10000
EPS == 8
RATE == 1
MIN_TARGET == 10100
HistoryLen == 5
InitialBet == 10
InitialTarget == 20000
InitialBalance == 10000000
Null == -1

\* --------------------------------------------------------------- bounds
MaxTime == 184
\* Callbacks pending at once, and rounds started, when placeBet is called
\* at any moment (Spec).
MaxFrames == 2
MaxStarts == 3
\* Rounds started through the Place Bet button (SpecUI).
MaxRounds == 6
\* Rounds run twice, side by side (SpecPair).
MaxPairs == 2
\* Rounds started when every pending callback is eventually run (SpecLive),
\* and the span of frame time the callbacks of one round may take.
MaxLive == 2
RoundSpan == 368
\* Rounds started with draws from all over [0, 1) (SpecGen).
MaxDraws == 1
\* Math.random() returns k / DrawScale, k in 0 .. DrawScale - 1.
DrawScale == 1000

\* Advances of the frame clock between two callbacks.
Deltas == {0, 91, 92}
\* Values typed into the Bet Amount input.
Bets == {0, 1000}
\* Values typed into the Target Multiplier input (10104 is 1.0104).
Targets == {10000, 10100, 10104}
\* Pairs <<r, u>> of Math.random() draws made by one start of a round.
RoundDraws == {<<0, 0>>, <<0, 20>>, <<0, 40>>}

VARIABLES
    betAmount,          \* useState(10)
    targetMultiplier,   \* useState(2.0)
    currentMultiplier,  \* useState(1.0)
    isRunning,          \* useState(false)
    result,             \* useState<GameResult | null>(null)
    history,            \* useState<number[]>([])
    balance,            \* useState(1000)
    animationRef,       \* useRef<number | null>(null): a frame handle
    startTimeRef,       \* useRef<number | null>(null)
    crashValueRef,      \* useRef<number | null>(null)
    frames,             \* the browser's pending animation-frame callbacks
    now,                \* the timestamp of the last frame delivered
    mounted,            \* whether the component is still mounted
    drawn,              \* the Math.random() draws <<r, u>> of the last start
    starts,             \* bookkeeping: the rounds placeBet has started
    settled,            \* bookkeeping: the rounds a callback has ended
    twin                \* SpecPair only: a second run of the current round

vars == <<betAmount, targetMultiplier, currentMultiplier, isRunning, result,
          history, balance, animationRef, startTimeRef, crashValueRef,
          frames, now, mounted, drawn, starts, settled, twin>>

NoResult == [status |-> "null"]
NoDraw == <<Null, Null>>
NoTwin == [active |-> FALSE]

Min(a, b) == IF a <= b THEN a ELSE b

\* Mutant: the rounding is forgotten.
NoRound(x) == x

\* Math.round(x * 100) / 100 on the multiplier scale: half rounds up.
Round2(x) == ((x + 50) \div 100) * 100

\* Math.random() * span, for the draw k / DrawScale.
Scaled(k, span) == (k * span) \div DrawScale

generateCrashMultiplier(r, u) ==
    LET crash == IF r * 10 < 4 * DrawScale THEN ONE + Scaled(u, 5000)
                 ELSE IF r * 10 < 7 * DrawScale THEN 15000 + Scaled(u, 15000)
                 ELSE IF r * 10 < 9 * DrawScale THEN 30000 + Scaled(u, 70000)
                 ELSE 100000 + Scaled(u, 50000)
    IN  Round2(crash)

\* The pending callbacks left by cancelAnimationFrame(h).
Cancel(fr, h) == {f \in fr : f.id # h}

\* stopAnimation(): the pending callbacks it leaves.
stopAnimation(fr) == IF animationRef # Null THEN Cancel(fr, animationRef) ELSE fr

\* requestAnimationFrame returns a handle no pending callback has.
NewHandle(fr) ==
    CHOOSE h \in 1 .. (Cardinality(fr) + 1) :
        /\ \A f \in fr : f.id # h
        /\ \A k \in 1 .. (h - 1) : \E f \in fr : f.id = k

\* Mutant: the slice is forgotten.
PushHistoryNoSlice(crash, prev) == <<crash>> \o prev

\* [crash, ...prev].slice(0, 5)
PushHistory(crash, prev) ==
    SubSeq(<<crash>> \o prev, 1, Min(Len(prev) + 1, HistoryLen))

tTargetOf(target) == (target - ONE) \div RATE
tCrashOf(crash) == (crash - ONE) \div RATE
\* Mutant: the later of the two events ends the round.
tEndLater(target, crash) ==
    IF tTargetOf(target) >= tCrashOf(crash) THEN tTargetOf(target) ELSE tCrashOf(crash)

tEndOf(target, crash) == Min(tTargetOf(target), tCrashOf(crash))

\* Mutant: the round ends only on a callback that falls on tEnd itself.
EndsOnExactFrame(elapsed, target, crash) == elapsed = tEndOf(target, crash)

\* The test that ends the round on a callback.
Ends(elapsed, target, crash) == elapsed + EPS >= tEndOf(target, crash)

\* Mutant: a tie, or a target within EPS after the crash, loses.
IsWinStrict(target, crash) == tTargetOf(target) < tCrashOf(crash)

\* The tie-break: ties go to win.
IsWin(target, crash) == tTargetOf(target) <= tCrashOf(crash) + EPS

\* Mutant: the payout is the profit only.
PayoutProfit(bet, target) == bet * target - bet * ONE

\* The payout of a win.
Payout(bet, target) == bet * target

\* Mutant: the display keeps the continuous value.
NoSnap(current, target, crash) == current

\* The value the display snaps to when the round ends; current is the
\* continuous value computed on that callback.
Snap(current, target, crash) == IF IsWin(target, crash) THEN target ELSE crash

\* Mutant: the outcome records the target in place of the crash value.
OutcomeOfTarget(bet, target, crash) ==
    IF IsWin(target, crash)
    THEN [status |-> "win", payout |-> Payout(bet, target), crash |-> target]
    ELSE [status |-> "loss", crash |-> target]

\* The GameResult of a round that ends.
Outcome(bet, target, crash) ==
    IF IsWin(target, crash)
    THEN [status |-> "win", payout |-> Payout(bet, target), crash |-> crash]
    ELSE [status |-> "loss", crash |-> crash]

\* Mutant: a win is paid without the stake being taken.
SettleKeepingStake(prev, bet, target, crash) ==
    IF IsWin(target, crash)
    THEN prev + Payout(bet, target)
    ELSE prev - bet * ONE

\* The balance after the round is settled.
Settle(prev, bet, target, crash) ==
    IF IsWin(target, crash)
    THEN prev - bet * ONE + Payout(bet, target)
    ELSE prev - bet * ONE

\* The state one call of animateCounter reads and writes.
Engine ==
    [startTime |-> startTimeRef, crash |-> crashValueRef,
     currentMultiplier |-> currentMultiplier, isRunning |-> isRunning,
     result |-> result, balance |-> balance, history |-> history]

\* One call of animateCounter(timestamp) on the state e, by a callback that
\* closed over betAmount = bet and targetMultiplier = target: the state it
\* leaves, whether it called stopAnimation (stop), whether it ended the
\* round (ended) and whether it requested another frame (again).  The later
\* of two setCurrentMultiplier calls of one callback is the one rendered.
animateCounterOn(e, bet, target, timestamp) ==
    LET start   == IF e.startTime = Null THEN timestamp ELSE e.startTime
        elapsed == timestamp - start
        current == ONE + elapsed * RATE
        crash   == e.crash
        shown   == [e EXCEPT !.startTime = start, !.currentMultiplier = current]
    IN  IF crash = Null
        THEN [state |-> [shown EXCEPT !.isRunning = FALSE],
              stop |-> TRUE, ended |-> FALSE, again |-> FALSE]
        ELSE IF Ends(elapsed, target, crash)
        THEN [state |-> [shown EXCEPT
                           !.isRunning = FALSE,
                           !.currentMultiplier = Snap(current, target, crash),
                           !.result = Outcome(bet, target, crash),
                           !.balance = Settle(e.balance, bet, target, crash),
                           !.history = PushHistory(crash, e.history)],
              stop |-> TRUE, ended |-> TRUE, again |-> FALSE]
        ELSE [state |-> shown, stop |-> FALSE, ended |-> FALSE, again |-> TRUE]

canPlaceBet ==
    /\ ~isRunning
    /\ betAmount > 0
    /\ targetMultiplier >= MIN_TARGET
    /\ betAmount * ONE <= balance

Init ==
    /\ betAmount = InitialBet
    /\ targetMultiplier = InitialTarget
    /\ currentMultiplier = ONE
    /\ isRunning = FALSE
    /\ result = NoResult
    /\ history = <<>>
    /\ balance = InitialBalance
    /\ animationRef = Null
    /\ startTimeRef = Null
    /\ crashValueRef = Null
    /\ frames = {}
    /\ now = 0
    /\ mounted = TRUE
    /\ drawn = NoDraw
    /\ starts = 0
    /\ settled = 0
    /\ twin = NoTwin

\* Mutant: the balance is not tested.
InvalidNoBalance ==
    \/ betAmount <= 0
    \/ targetMultiplier < MIN_TARGET

\* The rejection tests at the head of placeBet.
Invalid ==
    \/ betAmount <= 0
    \/ targetMultiplier < MIN_TARGET
    \/ betAmount * ONE > balance

\* Mutant: placeBet leaves the start timestamp of the round before.
placeBetKeepingStart(r, u) ==
    IF Invalid
    THEN UNCHANGED vars
    ELSE /\ result' = NoResult
         /\ currentMultiplier' = ONE
         /\ isRunning' = TRUE
         /\ crashValueRef' = generateCrashMultiplier(r, u)
         /\ drawn' = <<r, u>>
         /\ startTimeRef' = startTimeRef
         /\ animationRef' = NewHandle(frames)
         /\ frames' = frames \cup {[id |-> NewHandle(frames),
                                    bet |-> betAmount,
                                    target |-> targetMultiplier]}
         /\ starts' = starts + 1
         /\ UNCHANGED <<betAmount, targetMultiplier, history, balance,
                        now, mounted, settled>>

\* placeBet, with the two Math.random() draws of generateCrashMultiplier.
\* The callback it schedules is the animateCounter of the current render,
\* which closes over that render's betAmount and targetMultiplier.
\* (twin is left to the step that calls placeBet.)
placeBet(r, u) ==
    IF Invalid
    THEN UNCHANGED vars
    ELSE /\ result' = NoResult
         /\ currentMultiplier' = ONE
         /\ isRunning' = TRUE
         /\ crashValueRef' = generateCrashMultiplier(r, u)
         /\ drawn' = <<r, u>>
         /\ startTimeRef' = Null
         /\ animationRef' = NewHandle(frames)
         /\ frames' = frames \cup {[id |-> NewHandle(frames),
                                    bet |-> betAmount,
                                    target |-> targetMultiplier]}
         /\ starts' = starts + 1
         /\ UNCHANGED <<betAmount, targetMultiplier, history, balance,
                        now, mounted, settled>>

\* animateCounter(timestamp), run by the browser for the pending callback f.
\* State setters of an unmounted component are ignored by React; the refs
\* and the frame queue are not React state.
\* (twin is left to the step that runs the callback.)
animateCounter(f, timestamp) ==
    LET o     == animateCounterOn(Engine, f.bet, f.target, timestamp)
        fired == frames \ {f}
        left  == IF o.stop THEN stopAnimation(fired) ELSE fired
    IN  /\ f \in frames
        /\ timestamp >= now
        /\ now' = timestamp
        /\ startTimeRef' = o.state.startTime
        /\ IF mounted
           THEN /\ currentMultiplier' = o.state.currentMultiplier
                /\ isRunning' = o.state.isRunning
                /\ result' = o.state.result
                /\ balance' = o.state.balance
                /\ history' = o.state.history
                /\ settled' = IF o.ended THEN settled + 1 ELSE settled
           ELSE UNCHANGED <<currentMultiplier, isRunning, result, balance,
                            history, settled>>
        /\ IF o.again
           THEN /\ animationRef' = NewHandle(left)
                /\ frames' = left \cup {[id |-> NewHandle(left), bet |-> f.bet,
                                         target |-> f.target]}
           ELSE /\ animationRef' = IF o.stop THEN Null ELSE animationRef
                /\ frames' = left
        /\ UNCHANGED <<betAmount, targetMultiplier, crashValueRef, mounted,
                       drawn, starts>>

\* Mutant: reset also clears the history.
resetGameClearing ==
    /\ frames' = stopAnimation(frames)
    /\ animationRef' = Null
    /\ isRunning' = FALSE
    /\ currentMultiplier' = ONE
    /\ result' = NoResult
    /\ startTimeRef' = Null
    /\ history' = <<>>
    /\ UNCHANGED <<betAmount, targetMultiplier, balance,
                   crashValueRef, now, mounted, drawn, starts, settled, twin>>

resetGame ==
    /\ frames' = stopAnimation(frames)
    /\ animationRef' = Null
    /\ isRunning' = FALSE
    /\ currentMultiplier' = ONE
    /\ result' = NoResult
    /\ startTimeRef' = Null
    /\ UNCHANGED <<betAmount, targetMultiplier, history, balance,
                   crashValueRef, now, mounted, drawn, starts, settled, twin>>

\* The effect cleanup, run when the component unmounts.
Unmount ==
    /\ mounted
    /\ mounted' = FALSE
    /\ frames' = stopAnimation(frames)
    /\ animationRef' = Null
    /\ UNCHANGED <<betAmount, targetMultiplier, currentMultiplier, isRunning,
                   result, history, balance, startTimeRef, crashValueRef, now,
                   drawn, starts, settled, twin>>

\* onChange of the Bet Amount input.
setBetAmount(v) ==
    /\ betAmount' = v
    /\ UNCHANGED <<targetMultiplier, currentMultiplier, isRunning, result,
                   history, balance, animationRef, startTimeRef,
                   crashValueRef, frames, now, mounted, drawn, starts,
                   settled, twin>>

\* onChange of the Target Multiplier input.
setTargetMultiplier(v) ==
    /\ targetMultiplier' = v
    /\ UNCHANGED <<betAmount, currentMultiplier, isRunning, result,
                   history, balance, animationRef, startTimeRef,
                   crashValueRef, frames, now, mounted, drawn, starts,
                   settled, twin>>

\* The browser delivers a pending callback, with a timestamp not before the
\* last one.
Tick ==
    /\ \E f \in frames : \E d \in Deltas :
          now + d <= MaxTime /\ animateCounter(f, now + d)
    /\ UNCHANGED twin

\* placeBet called at any moment of the component's life, whatever the state
\* of the button.
Start ==
    /\ mounted
    /\ starts < MaxStarts
    /\ Cardinality(frames) < MaxFrames
    /\ \E p \in RoundDraws : placeBet(p[1], p[2])
    /\ UNCHANGED twin

\* A click on the Place Bet button, which is disabled unless canPlaceBet.
Click ==
    /\ mounted
    /\ starts < MaxRounds
    /\ canPlaceBet
    /\ \E p \in RoundDraws : placeBet(p[1], p[2])
    /\ UNCHANGED twin

\* A click on the Reset button, which is never disabled.
Reset == mounted /\ resetGame

\* The inputs are disabled while isRunning.
EditBet == mounted /\ ~isRunning /\ \E v \in Bets : setBetAmount(v)
EditTarget == mounted /\ ~isRunning /\ \E v \in Targets : setTargetMultiplier(v)

\* The component with placeBet callable at any moment.
Next ==
    \/ Start
    \/ Tick
    \/ Reset
    \/ Unmount
    \/ EditBet
    \/ EditTarget

Spec == Init /\ [][Next]_vars

\* The component driven through its user interface only.
NextUI ==
    \/ Click
    \/ Tick
    \/ Reset
    \/ Unmount
    \/ EditBet
    \/ EditTarget

SpecUI == Init /\ [][NextUI]_vars

\* First draws r at and around the ends of the four bands, and second draws u
\* over the whole range.
RSamples ==
    {0, DrawScale - 1} \cup
    UNION {{(k * DrawScale) \div 10 - 1, (k * DrawScale) \div 10} : k \in {4, 7, 9}}
USamples == {u \in 0 .. DrawScale - 1 : u % 3 = 0 \/ u = DrawScale - 1}

\* A round started from the button with any of the sampled draws.
Draw ==
    /\ mounted
    /\ starts < MaxDraws
    /\ canPlaceBet
    /\ \E r \in RSamples : \E u \in USamples : placeBet(r, u)
    /\ UNCHANGED twin

\* generateCrashMultiplier over its inputs.
NextGen ==
    \/ Draw
    \/ Reset

SpecGen == Init /\ [][NextGen]_vars

\* The same round run twice: the twin is the component's state just after
\* placeBet, and from there it receives callbacks of its own, with timestamps
\* of its own.
TwinRunning == twin.active /\ twin.pending

PairStart ==
    /\ mounted
    /\ starts < MaxPairs
    /\ canPlaceBet
    /\ ~TwinRunning
    /\ \E p \in RoundDraws : placeBet(p[1], p[2])
    /\ twin' = [active |-> TRUE, e |-> Engine', now |-> now',
                bet |-> betAmount', target |-> targetMultiplier',
                pending |-> TRUE]

TwinTick ==
    /\ TwinRunning
    /\ \E d \in Deltas :
          /\ twin.now + d <= MaxTime
          /\ LET o == animateCounterOn(twin.e, twin.bet, twin.target, twin.now + d)
             IN  twin' = [twin EXCEPT !.e = o.state, !.now = twin.now + d,
                                       !.pending = o.again]
    /\ UNCHANGED <<betAmount, targetMultiplier, currentMultiplier, isRunning,
                   result, history, balance, animationRef, startTimeRef,
                   crashValueRef, frames, now, mounted, drawn, starts, settled>>

NextPair ==
    \/ PairStart
    \/ Tick
    \/ TwinTick
    \/ EditBet
    \/ EditTarget

SpecPair == Init /\ [][NextPair]_vars

\* A click on the Place Bet button, in a run where the browser goes on
\* delivering the callbacks and nobody resets or unmounts.
LiveStart ==
    /\ mounted
    /\ starts < MaxLive
    /\ canPlaceBet
    /\ \E p \in RoundDraws : placeBet(p[1], p[2])
    /\ UNCHANGED twin

\* The browser delivers a pending callback; frame time is not capped short of
\* what the rounds started need.
LiveTick ==
    /\ \E f \in frames : \E d \in Deltas :
          now + d <= starts * RoundSpan /\ animateCounter(f, now + d)
    /\ UNCHANGED twin

NextLive ==
    \/ LiveStart
    \/ LiveTick
    \/ EditBet
    \/ EditTarget

\* requestAnimationFrame callbacks are run for as long as they are pending,
\* with timestamps that grow.
SpecLive == Init /\ [][NextLive]_vars /\ WF_vars(LiveTick)

TypeOK ==
    /\ betAmount \in Bets \cup {InitialBet}
    /\ targetMultiplier \in Targets \cup {InitialTarget}
    /\ isRunning \in BOOLEAN
    /\ mounted \in BOOLEAN
    /\ Len(history) <= HistoryLen
    /\ now \in 0 .. MaxTime
    /\ animationRef # Null => \E f \in frames : f.id = animationRef

\* ------------------------------------------------------------------ claims

\* A step in which the pending callback f runs and ends the round.
EndsRound(f) == f \in frames /\ animateCounter(f, now') /\ settled' = settled + 1

C4_Payout ==
    [][/\ result' # NoResult =>
            (("payout" \in DOMAIN result') <=> result'.status = "win")
       /\ \A f \in frames : (EndsRound(f) /\ result'.status = "win") =>
            result'.payout = f.bet * f.target]_vars

\* A win of the bet 10 on the target 1.01: the payout is 10.10.
C4_Witness ==
    /\ result.status = "win"
    /\ result.payout = 101000
    /\ balance = InitialBalance + 1000

\* The first n entries of the sequence s.
FirstN(s, n) == [i \in 1 .. Min(n, Len(s)) |-> s[i]]

\* C5: history never holds more than 5 entries; the callback that ends a
\* round puts the round's crash value in front of the earlier entries and
\* keeps the first 5; nothing else changes history, so starting a round or
\* resetting one adds no entry.
C5_History ==
    [][/\ Len(history') <= 5
       /\ \A f \in frames : EndsRound(f) =>
            history' = FirstN(<<crashValueRef>> \o history, 5)
       /\ history' # history => \E f \in frames : EndsRound(f)]_vars

\* Six rounds have ended: the oldest crash value is gone, and the five kept,
\* most recent first, are not all the same.
C5_Witness ==
    /\ settled = 6
    /\ Len(history) = 5
    /\ history[1] # history[2]
    /\ history[1] = result.crash

\* C6: for the draws r and u, generateCrashMultiplier returns a multiple of
\* 0.01 between 1.00 and 15.00, in the band r selects, ends included.
C6_CrashRange ==
    crashValueRef # Null =>
        LET c == crashValueRef
            r == drawn[1]
        IN  /\ 10000 <= c /\ c <= 150000
            /\ c % 100 = 0
            /\ r * 10 < 4 * DrawScale => (10000 <= c /\ c <= 15000)
            /\ (r * 10 >= 4 * DrawScale /\ r * 10 < 7 * DrawScale) =>
                 (15000 <= c /\ c <= 30000)
            /\ (r * 10 >= 7 * DrawScale /\ r * 10 < 9 * DrawScale) =>
                 (30000 <= c /\ c <= 100000)
            /\ r * 10 >= 9 * DrawScale => (100000 <= c /\ c <= 150000)

\* A draw of the first band that rounding takes to the band's upper end 1.50.
C6_Witness ==
    /\ crashValueRef = 15000
    /\ drawn[1] * 10 < 4 * DrawScale

\* C7: a call of placeBet with betAmount <= 0, targetMultiplier < 1.01 or
\* betAmount > balance changes nothing.
C7_InvalidStartNoOp ==
    [][\A p \in RoundDraws :
          ((betAmount <= 0 \/ targetMultiplier < 10100 \/ betAmount * ONE > balance)
             /\ placeBet(p[1], p[2]))
          => UNCHANGED vars]_vars

\* placeBet can be called with a positive bet above the balance, on a target
\* that is allowed.
C7_Witness ==
    /\ mounted
    /\ starts < MaxStarts
    /\ betAmount > 0
    /\ targetMultiplier >= 10100
    /\ betAmount * ONE > balance
    /\ settled > 0

\* C8: a call of placeBet while isRunning leaves the crash value, the start
\* timestamp, currentMultiplier and the pending frame handle as they are and
\* schedules nothing, so that at most one callback is ever pending.
C8_SecondStartRefused ==
    [][/\ \A p \in RoundDraws : (isRunning /\ placeBet(p[1], p[2])) =>
            /\ crashValueRef' = crashValueRef
            /\ startTimeRef' = startTimeRef
            /\ currentMultiplier' = currentMultiplier
            /\ animationRef' = animationRef
            /\ frames' = frames
       /\ Cardinality(frames') <= 1]_vars

\* The state resetGame leaves, for as long as no round is started.
AfterReset ==
    /\ mounted
    /\ ~isRunning
    /\ result = NoResult
    /\ currentMultiplier = ONE
    /\ startTimeRef = Null
    /\ animationRef = Null

\* C9: once resetGame or the unmount cleanup has run, and until the next
\* start, no callback scheduled earlier runs.
C9_Cancellation ==
    [][(AfterReset \/ ~mounted) =>
          \A f \in frames : ~animateCounter(f, now')]_vars

\* C10: a callback delivered while no round is running changes neither
\* currentMultiplier, the outcome, history nor balance, and requests no
\* further frame.
C10_IdleTickNoOp ==
    [][\A f \in frames : (mounted /\ ~isRunning /\ animateCounter(f, now')) =>
          /\ currentMultiplier' = currentMultiplier
          /\ result' = result
          /\ history' = history
          /\ balance' = balance
          /\ frames' \subseteq frames]_vars

\* Both runs of the round have ended.
BothEnded == twin.active /\ ~twin.pending /\ ~isRunning /\ frames = {}

\* C2: two runs of one round, with the same bet, target and crash value and
\* callbacks at different timestamps, end with the same outcome (status,
\* payout, crash), the same currentMultiplier, the same history and the same
\* balance.
C2_PollingIndependence ==
    BothEnded =>
        /\ twin.e.result = result
        /\ twin.e.currentMultiplier = currentMultiplier
        /\ twin.e.history = history
        /\ twin.e.balance = balance
        /\ twin.e.isRunning = isRunning

\* Two runs of a round that ended on callbacks with different timestamps, at
\* different elapsed times.
C2_Witness ==
    /\ BothEnded
    /\ result.status = "win"
    /\ twin.now # now
    /\ twin.now - twin.e.startTime # now - startTimeRef

\* C11: a callback ends a round only when no outcome is set since the last
\* start, so each round started gets one outcome, one history entry and one
\* settlement; the rounds ended never outnumber the rounds started; and an
\* outcome that is set is replaced only by placeBet or resetGame.
C11_OneOutcome ==
    [][/\ settled' <= starts'
       /\ \A f \in frames : EndsRound(f) => (isRunning /\ result = NoResult)
       /\ (result # NoResult /\ result' # result) =>
            (resetGame \/ \E p \in RoundDraws : placeBet(p[1], p[2]))]_vars

\* No round is running and none has an outcome on display.
Idle == ~isRunning /\ result = NoResult /\ currentMultiplier = ONE

\* C12: resetGame, from any state, leaves isRunning false, currentMultiplier
\* at 1.0, no outcome, and no callback pending; called when that is already
\* so, it changes nothing.
C12_ResetToIdle ==
    [][resetGame =>
          /\ Idle'
          /\ animationRef' = Null
          /\ frames' = {}
          /\ Idle => UNCHANGED vars]_vars

\* C13: resetGame changes neither history, balance, betAmount nor
\* targetMultiplier, whatever the state it is called in; called while a round
\* is running it adds no history entry and deducts nothing.
C13_ResetFrame ==
    [][resetGame =>
          /\ history' = history
          /\ balance' = balance
          /\ betAmount' = betAmount
          /\ targetMultiplier' = targetMultiplier
          /\ settled' = settled]_vars

\* A reset has abandoned the only round started, after a callback of it ran:
\* nothing is in history and the balance is the initial one.
C13_Witness ==
    /\ mounted
    /\ Idle
    /\ frames = {}
    /\ starts = 1
    /\ settled = 0
    /\ now > 0
    /\ startTimeRef = Null
    /\ history = <<>>
    /\ balance = InitialBalance

\* C14: no win is recorded for a round whose crash value is strictly below
\* the target the round ran with, for any target the input accepts.
C14_NoWinBelowTarget ==
    [][\A f \in frames :
          (EndsRound(f) /\ crashValueRef < f.target) => result'.status # "win"]_vars

\* C15: with placeBet called only while canPlaceBet holds, the crash value is
\* drawn once per round, by the placeBet that starts it, and stays as drawn
\* while the round runs; the callback that ends the round stores that value
\* in the outcome and puts it at the head of history.
C15_CrashFixed ==
    [][/\ isRunning => (crashValueRef' = crashValueRef /\ drawn' = drawn)
       /\ (crashValueRef' # crashValueRef \/ drawn' # drawn) =>
            /\ starts' = starts + 1
            /\ crashValueRef' = generateCrashMultiplier(drawn'[1], drawn'[2])
       /\ starts' = starts + 1 =>
            crashValueRef' = generateCrashMultiplier(drawn'[1], drawn'[2])
       /\ \A f \in frames : animateCounter(f, now') =>
            crashValueRef = generateCrashMultiplier(drawn[1], drawn[2])
       /\ \A f \in frames : EndsRound(f) =>
            /\ result'.crash = crashValueRef
            /\ history'[1] = crashValueRef]_vars

\* Two rounds have ended, on different crash values; the second one's is in
\* the outcome and at the head of history.
C15_Witness ==
    /\ settled = 2
    /\ starts = 2
    /\ ~isRunning
    /\ Len(history) = 2
    /\ history[1] # history[2]
    /\ result.crash = history[1]
    /\ crashValueRef = history[1]
    /\ result.crash # targetMultiplier

\* C16: with the pending callbacks run and no reset, a round that is running
\* eventually is not, with an outcome of win or loss on display; and once a
\* round has ended no callback is pending.
C16_RoundEnds ==
    /\ isRunning ~> (~isRunning /\ result.status \in {"win", "loss"} /\ frames = {})
    /\ [](~isRunning => (frames = {} /\ animationRef = Null))

\* A round that took three callbacks after its first to end: the crash value
\* 1.02 against the target 2.0.
C16_Witness ==
    /\ ~isRunning
    /\ frames = {}
    /\ result.status = "loss"
    /\ result.crash = 10200
    /\ now - startTimeRef > 2 * 92

\* The targets a round can be started with.
StartableTargets == {t \in Targets \cup {InitialTarget} : t >= MIN_TARGET}

\* C17, as stated: for every target a round can be started with and every
\* crash value drawn, tEnd is strictly positive.
C17_TEndPositive ==
    crashValueRef # Null =>
        \A t \in StartableTargets : tEndOf(t, crashValueRef) > 0

\* C17, amended: tEnd is at least 0 and at most the 17.5 s of the largest crash
\* value; it is 0 exactly when the crash value drawn is 1.00.
C17_TEndNonNegative ==
    crashValueRef # Null =>
        \A t \in StartableTargets :
            /\ tEndOf(t, crashValueRef) >= 0
            /\ tEndOf(t, crashValueRef) <= 140000
            /\ tEndOf(t, crashValueRef) = 0 <=> crashValueRef = ONE

\* A round started on the crash value 1.00: its tEnd is 0.
C17_Witness ==
    /\ isRunning
    /\ crashValueRef = ONE
    /\ tEndOf(targetMultiplier, crashValueRef) = 0

\* C18: a callback that finds no start timestamp takes its own timestamp as
\* the start, so its elapsed time is 0 and the value it computes is 1.0,
\* however long after placeBet it runs; a callback that finds one keeps it
\* and computes its value from its timestamp minus that start; placeBet and
\* resetGame clear the start timestamp, so that none is left over for the
\* next round.
C18_LazyStart ==
    [][/\ \A f \in frames : animateCounter(f, now') =>
            LET o == animateCounterOn(Engine, f.bet, f.target, now')
            IN  /\ startTimeRef = Null => startTimeRef' = now'
                /\ startTimeRef # Null => startTimeRef' = startTimeRef
                /\ (mounted /\ ~o.ended) =>
                     currentMultiplier' = ONE + (now' - startTimeRef') * RATE
                /\ (mounted /\ ~o.ended /\ startTimeRef = Null) =>
                     currentMultiplier' = ONE
       /\ starts' = starts + 1 => startTimeRef' = Null
       /\ resetGame => startTimeRef' = Null
       /\ (startTimeRef' # startTimeRef /\ startTimeRef' # Null) =>
            (startTimeRef = Null /\ startTimeRef' = now'
               /\ \E f \in frames : animateCounter(f, now'))]_vars

\* The second round's first callback ran at a later time than the first
\* round's start: the start timestamp is that callback's own.
C18_Witness ==
    /\ isRunning
    /\ starts = 2
    /\ settled = 1
    /\ startTimeRef = now
    /\ startTimeRef > 91
    /\ currentMultiplier = ONE

C20_Balance ==
    [][/\ balance' # balance => \E f \in frames : EndsRound(f)
       /\ \A f \in frames : EndsRound(f) =>
            /\ f.bet = betAmount /\ f.target = targetMultiplier
            /\ result'.status = "loss" => balance' = balance - betAmount * ONE
            /\ result'.status = "win" =>
                 balance' = balance - betAmount * ONE + betAmount * targetMultiplier
       /\ balance' >= 0]_vars

\* The whole balance, 1000, was bet and lost: the balance is 0.
C20_Witness ==
    /\ ~isRunning
    /\ result.status = "loss"
    /\ betAmount = 1000
    /\ balance = 0
    /\ settled = 1

=============================================================================
